---- MODULE Spec2Model ----
(***************************************************************************)
(* Model of the Beget DNS provider of ddns-updater                         *)
(* (internal/provider/providers/beget/provider.go): Provider.Update, the   *)
(* fetch (getData) / write (changeRecords) reconciliation, Provider.apiCall *)
(* and the JSON encoding and decoding they rely on.                        *)
(*                                                                         *)
(* JSON texts are sequences of tokens (punctuation, whitespace, string,    *)
(* literal and number tokens), so that whitespace, escapes and raw         *)
(* sub-documents (json.RawMessage) are kept as the code keeps them.        *)
(***************************************************************************)
EXTENDS Naturals, Sequences, FiniteSets, TLC

(***************************************************************************)
(* JSON texts as token sequences                                           *)
(***************************************************************************)

\* punctuation: { } [ ] : ,
P(c) == [t |-> "p", v |-> <<c>>]
\* one whitespace character outside a string: space, \n, \r, \t
W(c) == [t |-> "w", v |-> <<c>>]
\* a string literal; its content is a sequence of chunks, an escape sequence
\* or a character json.Marshal escapes being a chunk of its own
S(chunks) == [t |-> "s", v |-> chunks]
\* the literals true, false, null
L(c) == [t |-> "l", v |-> <<c>>]
\* a number literal
N(n) == [t |-> "n", v |-> <<ToString(n)>>]
\* bytes that begin no JSON value (an HTML error page, say)
X(c) == [t |-> "x", v |-> <<c>>]

Str(s) == S(<<s>>)

RECURSIVE SkipWS(_, _)
\* index of the first token at or after i that is not whitespace
SkipWS(toks, i) ==
    IF i <= Len(toks) /\ toks[i].t = "w" THEN SkipWS(toks, i + 1) ELSE i

RECURSIVE ValueEnd(_, _), MembersEnd(_, _), ElementsEnd(_, _)
\* index of the last token of the JSON value that begins at token i,
\* 0 when no JSON value begins there (encoding/json's scanner)
ValueEnd(toks, i) ==
    IF i > Len(toks) THEN 0
    ELSE IF toks[i].t \in {"s", "l", "n"} THEN i
    ELSE IF toks[i] = P("{") THEN
        LET j == SkipWS(toks, i + 1) IN
        IF j <= Len(toks) /\ toks[j] = P("}") THEN j ELSE MembersEnd(toks, j)
    ELSE IF toks[i] = P("[") THEN
        LET j == SkipWS(toks, i + 1) IN
        IF j <= Len(toks) /\ toks[j] = P("]") THEN j ELSE ElementsEnd(toks, j)
    ELSE 0

\* j is where an object member's key must be
MembersEnd(toks, j) ==
    IF j > Len(toks) \/ toks[j].t # "s" THEN 0
    ELSE LET c == SkipWS(toks, j + 1) IN
         IF c > Len(toks) \/ toks[c] # P(":") THEN 0
         ELSE LET e == ValueEnd(toks, SkipWS(toks, c + 1)) IN
              IF e = 0 THEN 0
              ELSE LET n == SkipWS(toks, e + 1) IN
                   IF n > Len(toks) THEN 0
                   ELSE IF toks[n] = P(",") THEN MembersEnd(toks, SkipWS(toks, n + 1))
                   ELSE IF toks[n] = P("}") THEN n
                   ELSE 0

\* j is where an array element must begin
ElementsEnd(toks, j) ==
    LET e == ValueEnd(toks, j) IN
    IF e = 0 THEN 0
    ELSE LET n == SkipWS(toks, e + 1) IN
         IF n > Len(toks) THEN 0
         ELSE IF toks[n] = P(",") THEN ElementsEnd(toks, SkipWS(toks, n + 1))
         ELSE IF toks[n] = P("]") THEN n
         ELSE 0

\* json.Valid / checkValid: exactly one JSON value, whitespace around it allowed
Valid(toks) ==
    LET i == SkipWS(toks, 1)
        e == ValueEnd(toks, i)
    IN  e # 0 /\ SkipWS(toks, e + 1) = Len(toks) + 1

\* the decoded content of one chunk of a string literal
UnescapeChunk(c) ==
    CASE c = "\\u003c" -> "<"
      [] c = "\\u003e" -> ">"
      [] c = "\\u0026" -> "&"
      [] c = "\\n" -> "\n"
      [] OTHER -> c

RECURSIVE Join(_)
Join(chunks) ==
    IF chunks = <<>> THEN "" ELSE UnescapeChunk(Head(chunks)) \o Join(Tail(chunks))

\* the Go string a string literal token decodes to (unquote)
Unquote(tok) == Join(tok.v)

RECURSIVE MembersFrom(_, _)
\* the members of an object, in order, from the key at token j on:
\* [key, from, to], the value being tokens from..to
MembersFrom(toks, j) ==
    LET c == SkipWS(toks, j + 1)
        f == SkipWS(toks, c + 1)
        e == ValueEnd(toks, f)
        n == SkipWS(toks, e + 1)
        m == [key |-> Unquote(toks[j]), from |-> f, to |-> e]
    IN  IF toks[n] = P(",") THEN <<m>> \o MembersFrom(toks, SkipWS(toks, n + 1))
        ELSE <<m>>

\* the members of the object that begins at token i of a valid text
Members(toks, i) ==
    LET j == SkipWS(toks, i + 1) IN
    IF toks[j] = P("}") THEN <<>> ELSE MembersFrom(toks, j)

(***************************************************************************)
(* json.Unmarshal into the two response types of provider.go               *)
(***************************************************************************)

\* encoding/json matches an object key to a struct field by name or tag,
\* ignoring case: the key forms that occur, folded to the field they match
FoldKey(k) ==
    CASE k \in {"status", "Status", "STATUS"} -> "status"
      [] k \in {"answer", "Answer"} -> "answer"
      [] k \in {"result", "Result"} -> "result"
      [] k \in {"fqdn", "FQDN"} -> "fqdn"
      [] k \in {"records", "Records"} -> "records"
      [] k \in {"login", "Login"} -> "login"
      [] k \in {"password", "Password"} -> "password"
      [] k \in {"domain", "Domain"} -> "domain"
      [] k \in {"priority", "Priority"} -> "priority"
      [] OTHER -> k

\* a Go map[string]json.RawMessage: nil, or a function from keys to raw texts
NilMap == [nil |-> TRUE, m |-> <<>>]
MakeMap(f) == [nil |-> FALSE, m |-> f]

\* the zero value of a response struct, fields of both types flattened:
\* getDataResponse{Status, Answer{Status, Result{FQDN, Records}}} and
\* Update's result{Status, Answer{Status, Result bool}}; err is Unmarshal's error
ZeroStruct ==
    [err |-> FALSE, Status |-> "", AnswerStatus |-> "", FQDN |-> "",
     Records |-> NilMap, Result |-> FALSE]

\* a JSON value stored into a string field: a string sets it, null leaves it,
\* anything else is an UnmarshalTypeError
StoreString(toks, m, acc, fld) ==
    LET tok == toks[m.from] IN
    IF tok.t = "s" THEN [acc EXCEPT ![fld] = Unquote(tok)]
    ELSE IF tok = L("null") THEN acc
    ELSE [acc EXCEPT !.err = TRUE]

\* a JSON value stored into a bool field
StoreBool(toks, m, acc, fld) ==
    LET tok == toks[m.from] IN
    IF tok = L("true") THEN [acc EXCEPT ![fld] = TRUE]
    ELSE IF tok = L("false") THEN [acc EXCEPT ![fld] = FALSE]
    ELSE IF tok = L("null") THEN acc
    ELSE [acc EXCEPT !.err = TRUE]

\* a JSON value stored into an int field: the numbers of the model are
\* non-negative integers below 100
StoreInt(toks, m, acc, fld) ==
    LET tok == toks[m.from] IN
    IF tok.t = "n" THEN [acc EXCEPT ![fld] = CHOOSE n \in 0 .. 99 : N(n) = tok]
    ELSE IF tok = L("null") THEN acc
    ELSE [acc EXCEPT !.err = TRUE]

\* the entries an object adds to a map[string]json.RawMessage: every member's
\* value kept as the bytes it was written with, a repeated key keeping the last
MapWith(base, toks, ms) ==
    LET ks == {ms[k].key : k \in DOMAIN ms}
        last(key) == CHOOSE k \in DOMAIN ms :
                        /\ ms[k].key = key
                        /\ \A k2 \in DOMAIN ms : ms[k2].key = key => k2 <= k
    IN  [key \in (DOMAIN base) \cup ks |->
            IF key \in ks THEN SubSeq(toks, ms[last(key)].from, ms[last(key)].to)
            ELSE base[key]]

\* a JSON value stored into a map[string]json.RawMessage field: an object
\* allocates the map if it is nil and sets its members, null sets the field
\* to the nil map
StoreMap(toks, m, acc, fld) ==
    LET tok == toks[m.from] IN
    IF tok = P("{")
    THEN [acc EXCEPT ![fld] = MakeMap(MapWith(acc[fld].m, toks, Members(toks, m.from)))]
    ELSE IF tok = L("null") THEN [acc EXCEPT ![fld] = NilMap]
    ELSE [acc EXCEPT !.err = TRUE]

RECURSIVE DecodeStruct(_, _, _, _), DecodeMembers(_, _, _, _, _), DecodeMember(_, _, _, _)
\* the JSON value at token i decoded into the struct type ty
DecodeStruct(ty, toks, i, acc) ==
    IF toks[i] = P("{") THEN DecodeMembers(ty, toks, Members(toks, i), 1, acc)
    ELSE IF toks[i] = L("null") THEN acc
    ELSE [acc EXCEPT !.err = TRUE]

DecodeMembers(ty, toks, ms, k, acc) ==
    IF k > Len(ms) THEN acc
    ELSE DecodeMembers(ty, toks, ms, k + 1, DecodeMember(ty, toks, ms[k], acc))

\* one object member decoded into the field it matches; unknown keys are skipped
DecodeMember(ty, toks, m, acc) ==
    LET f == FoldKey(m.key) IN
    CASE ty \in {"getDataResponse", "result"} /\ f = "status" ->
            StoreString(toks, m, acc, "Status")
      [] ty = "getDataResponse" /\ f = "answer" ->
            DecodeStruct("getDataResponse.Answer", toks, m.from, acc)
      [] ty = "result" /\ f = "answer" ->
            DecodeStruct("result.Answer", toks, m.from, acc)
      [] ty \in {"getDataResponse.Answer", "result.Answer"} /\ f = "status" ->
            StoreString(toks, m, acc, "AnswerStatus")
      [] ty = "getDataResponse.Answer" /\ f = "result" ->
            DecodeStruct("getDataResponse.Answer.Result", toks, m.from, acc)
      [] ty = "result.Answer" /\ f = "result" ->
            StoreBool(toks, m, acc, "Result")
      [] ty = "getDataResponse.Answer.Result" /\ f = "fqdn" ->
            StoreString(toks, m, acc, "FQDN")
      [] ty = "getDataResponse.Answer.Result" /\ f = "records" ->
            StoreMap(toks, m, acc, "Records")
      [] ty = "extraSettings" /\ f = "login" -> StoreString(toks, m, acc, "Login")
      [] ty = "extraSettings" /\ f = "password" -> StoreString(toks, m, acc, "Password")
      [] ty = "extraSettings" /\ f = "domain" -> StoreString(toks, m, acc, "Domain")
      [] ty = "extraSettings" /\ f = "priority" -> StoreInt(toks, m, acc, "Priority")
      [] OTHER -> acc

\* json.Unmarshal(body, &v) for v of struct type ty: a syntax error before
\* anything is stored, else the decoded struct, err set on a type mismatch
Unmarshal(ty, body) ==
    IF ~Valid(body) THEN [ZeroStruct EXCEPT !.err = TRUE]
    ELSE DecodeStruct(ty, body, SkipWS(body, 1), ZeroStruct)

\* the zero value of New's extraSettings (lines 46-52); err is Unmarshal's error
ZeroSettings ==
    [err |-> FALSE, Login |-> "", Password |-> "", Domain |-> "", Priority |-> 0]

\* json.Unmarshal(data, &extraSettings) (line 54)
UnmarshalSettings(data) ==
    IF ~Valid(data) THEN [ZeroSettings EXCEPT !.err = TRUE]
    ELSE DecodeStruct("extraSettings", data, SkipWS(data, 1), ZeroSettings)

(***************************************************************************)
(* json.Marshal of the two request payloads                                *)
(***************************************************************************)

\* the record types of the model, in the byte order json.Marshal sorts map keys
KeyOrder == <<"A", "MX", "TXT">>

\* the characters json.Marshal writes as \u00XX escapes (escapeHTML)
EscapeChunk(c) ==
    CASE c = "<" -> "\\u003c"
      [] c = ">" -> "\\u003e"
      [] c = "&" -> "\\u0026"
      [] OTHER -> c

RECURSIVE Compact(_)
\* json.RawMessage as json.Marshal writes it (appendCompact with escapeHTML):
\* whitespace between tokens dropped, <, > and & written as escapes
Compact(raw) ==
    IF raw = <<>> THEN <<>>
    ELSE LET tok == Head(raw) IN
         IF tok.t = "w" THEN Compact(Tail(raw))
         ELSE IF tok.t = "s"
              THEN <<S([k \in DOMAIN tok.v |-> EscapeChunk(tok.v[k])])>> \o Compact(Tail(raw))
              ELSE <<tok>> \o Compact(Tail(raw))

\* netip.Addr: the zero Addr, or an IPv4 address of four bytes
ZeroAddr == [valid |-> FALSE, b |-> <<0, 0, 0, 0>>]
IP4(a, b, c, d) == [valid |-> TRUE, b |-> <<a, b, c, d>>]

\* netip.Addr.String
IPString(ip) ==
    IF ~ip.valid THEN "invalid IP"
    ELSE ToString(ip.b[1]) \o "." \o ToString(ip.b[2]) \o "."
            \o ToString(ip.b[3]) \o "." \o ToString(ip.b[4])

\* json.Marshal(map[string]string{"fqdn": p.target})
MarshalGetDataRequest(target) ==
    <<P("{"), Str("fqdn"), P(":"), Str(target), P("}")>>

\* json.Marshal([]struct{Priority int; Value string}{{priority, ip.String()}})
NewAEntryJSON(priority, ip) ==
    <<P("["), P("{"), Str("priority"), P(":"), N(priority), P(","),
      Str("value"), P(":"), Str(IPString(ip)), P("}"), P("]")>>

RECURSIVE MarshalMembers(_, _, _)
\* the members of a marshalled map from key k of KeyOrder on; first tells
\* whether no member was written yet
MarshalMembers(f, k, first) ==
    IF k > Len(KeyOrder) THEN <<>>
    ELSE IF KeyOrder[k] \in DOMAIN f
         THEN (IF first THEN <<>> ELSE <<P(",")>>)
                \o <<Str(KeyOrder[k]), P(":")>> \o Compact(f[KeyOrder[k]])
                \o MarshalMembers(f, k + 1, FALSE)
         ELSE MarshalMembers(f, k + 1, first)

\* json.Marshal of a map[string]json.RawMessage
MarshalMap(map) ==
    IF map.nil THEN <<L("null")>>
    ELSE <<P("{")>> \o MarshalMembers(map.m, 1, TRUE) \o <<P("}")>>

\* json.Marshal(inputData): {"fqdn": ..., "records": {...}}
MarshalInputData(fqdn, records) ==
    <<P("{"), Str("fqdn"), P(":"), Str(fqdn), P(","), Str("records"), P(":")>>
        \o MarshalMap(records) \o <<P("}")>>

\* inputData.Records["A"] = newAEntryJSON: an assignment to an entry of a
\* non-nil map (on a nil map Go panics, see FetchReturn)
SetA(map, raw) ==
    MakeMap([key \in (DOMAIN map.m) \cup {"A"} |-> IF key = "A" THEN raw ELSE map.m[key]])

(***************************************************************************)
(* Errors: a chain of messages, each wrapping the next (fmt.Errorf %w),    *)
(* with the single-line body rendering an error message may end with       *)
(***************************************************************************)

NoError == [chain |-> <<>>, detail |-> <<>>]
IsNil(e) == e.chain = <<>>
\* errors.New / fmt.Errorf without %w
NewError(msg) == [chain |-> <<msg>>, detail |-> <<>>]
\* fmt.Errorf(msg + ": %w", e)
Wrap(msg, e) == [chain |-> <<msg>> \o e.chain, detail |-> e.detail]
\* errors.Is(e, target)
ErrorsIs(e, target) == \E k \in DOMAIN e.chain : e.chain[k] = target

\* context.Canceled, and what the transport reports for a broken connection
ErrCanceled == "context canceled"
ErrNetwork == "connection reset by peer"
\* the *url.Error client.Do returns, wrapping the cause
URLError(cause) == [chain |-> <<"Get https://api.beget.com", cause>>, detail |-> <<>>]

RECURSIVE ToSingleLine(_)
\* utils.ToSingleLine: the text with its line breaks removed
ToSingleLine(text) ==
    IF text = <<>> THEN <<>>
    ELSE IF Head(text) \in {W("\n"), W("\r")} THEN ToSingleLine(Tail(text))
    ELSE <<Head(text)>> \o ToSingleLine(Tail(text))

(***************************************************************************)
(* New                                                                     *)
(***************************************************************************)

\* errors.ErrDomainNotValid
ErrDomainNotValid == "domain is not valid"

\* utils.CheckDomain: nil for a syntactically valid domain name, an error
\* otherwise; of the names of the model these are the valid ones
CheckDomain(domain) ==
    IF domain \in {"home.example.com", "example.org", "example.com"}
    THEN [chain |-> <<>>, detail |-> <<>>]
    ELSE [chain |-> <<"domain name is malformed">>, detail |-> <<>>]

\* the value a field of type Provider holds before New has built one
ZeroProvider ==
    [domain |-> "", target |-> "", owner |-> "", login |-> "", password |-> "",
     priority |-> 0]

\* New's results (p *Provider, err error); nil tells that p is nil
NewReturn(inst, err) == [nil |-> FALSE, p |-> inst, err |-> err]
NewFailure(err) == [nil |-> TRUE, p |-> ZeroProvider, err |-> err]

\* New with the check of the domain left out
New_Unchecked(data, domain, owner) ==
    LET extraSettings == UnmarshalSettings(data) IN
    IF extraSettings.err THEN NewFailure([chain |-> <<"json error">>, detail |-> <<>>])
    ELSE NewReturn([domain |-> domain, target |-> extraSettings.Domain,
                    priority |-> extraSettings.Priority, owner |-> owner,
                    login |-> extraSettings.Login, password |-> extraSettings.Password],
                   [chain |-> <<>>, detail |-> <<>>])

\* New with target taken from the domain argument, not from the configuration
New_TargetFromArgument(data, domain, owner) ==
    LET extraSettings == UnmarshalSettings(data) IN
    IF extraSettings.err THEN NewFailure([chain |-> <<"json error">>, detail |-> <<>>])
    ELSE IF CheckDomain(extraSettings.Domain).chain # <<>>
    THEN NewFailure([chain |-> <<ErrDomainNotValid>> \o CheckDomain(extraSettings.Domain).chain,
                     detail |-> <<>>])
    ELSE NewReturn([domain |-> domain, target |-> domain,
                    priority |-> extraSettings.Priority, owner |-> owner,
                    login |-> extraSettings.Login, password |-> extraSettings.Password],
                   [chain |-> <<>>, detail |-> <<>>])

\* New (lines 42-74): the configuration decoded, its domain checked, the
\* instance built; fmt.Errorf("%w: %w", ...) wraps both errors
New(data, domain, owner) ==
    LET extraSettings == UnmarshalSettings(data) IN
    IF extraSettings.err THEN NewFailure(NewError("json error"))
    ELSE IF ~IsNil(CheckDomain(extraSettings.Domain))
    THEN NewFailure(Wrap(ErrDomainNotValid, CheckDomain(extraSettings.Domain)))
    ELSE NewReturn([domain |-> domain, target |-> extraSettings.Domain,
                    priority |-> extraSettings.Priority, owner |-> owner,
                    login |-> extraSettings.Login, password |-> extraSettings.Password],
                   NoError)

(***************************************************************************)
(* Provider.apiCall                                                        *)
(***************************************************************************)

\* http.StatusOK
StatusOK == 200

\* the request apiCall builds: an authenticated GET to api.beget.com with
\* the payload as the query parameter input_data
Request(prov, URLEndpoint, inputJSON) ==
    [method |-> "GET", scheme |-> "https", host |-> "api.beget.com",
     path |-> URLEndpoint, accept |-> "application/json",
     login |-> prov.login, passwd |-> prov.password,
     input_format |-> "json", output_format |-> "json",
     input_data |-> inputJSON]

\* http.NewRequestWithContext fails on a nil context
RequestError(URLEndpoint) ==
    Wrap(URLEndpoint \o ": Failed creating HTTP request", NewError("net/http: nil Context"))

\* apiCall handing back what io.ReadAll had read when reading failed
ApiCallReturn_PartialBody(URLEndpoint, r) ==
    CASE r.kind = "norequest" ->
            [body |-> <<>>, closed |-> 0,
             err |-> Wrap(URLEndpoint \o ": Failed creating HTTP request",
                          NewError("net/http: nil Context"))]
      [] r.kind = "doerr" ->
            [body |-> <<>>, closed |-> 0,
             err |-> Wrap(URLEndpoint \o ": Failed performing HTTP request", URLError(r.cause))]
      [] r.kind = "readerr" ->
            [body |-> r.body, closed |-> 1,
             err |-> Wrap(URLEndpoint \o ": Failed reading response body", NewError(r.cause))]
      [] r.kind = "http" /\ r.code # 200 ->
            [body |-> r.body, closed |-> 1,
             err |-> NewError(URLEndpoint \o ": HTTP status is " \o ToString(r.code))]
      [] OTHER -> [body |-> r.body, closed |-> 1, err |-> NoError]

\* apiCall closing the body at the end of the success path only, not deferred
ApiCallReturn_CloseAtEnd(URLEndpoint, r) ==
    CASE r.kind = "norequest" ->
            [body |-> <<>>, closed |-> 0,
             err |-> Wrap(URLEndpoint \o ": Failed creating HTTP request",
                          NewError("net/http: nil Context"))]
      [] r.kind = "doerr" ->
            [body |-> <<>>, closed |-> 0,
             err |-> Wrap(URLEndpoint \o ": Failed performing HTTP request", URLError(r.cause))]
      [] r.kind = "readerr" ->
            [body |-> <<>>, closed |-> 0,
             err |-> Wrap(URLEndpoint \o ": Failed reading response body", NewError(r.cause))]
      [] r.kind = "http" /\ r.code # 200 ->
            [body |-> r.body, closed |-> 0,
             err |-> NewError(URLEndpoint \o ": HTTP status is " \o ToString(r.code))]
      [] OTHER -> [body |-> r.body, closed |-> 1, err |-> NoError]

\* what apiCall returns (lines 117-155) when its transport ends with outcome
\* r: r.kind is "norequest" (http.NewRequestWithContext failed), "doerr"
\* (client.Do failed), "readerr" (io.ReadAll failed after reading r.body) or
\* "http" (a response with status r.code and body r.body was read); closed
\* counts the calls of response.Body.Close, deferred at line 143
ApiCallReturn(URLEndpoint, r) ==
    CASE r.kind = "norequest" ->
            [body |-> <<>>, closed |-> 0, err |-> RequestError(URLEndpoint)]
      [] r.kind = "doerr" ->
            [body |-> <<>>, closed |-> 0,
             err |-> Wrap(URLEndpoint \o ": Failed performing HTTP request", URLError(r.cause))]
      [] r.kind = "readerr" ->
            [body |-> <<>>, closed |-> 1,
             err |-> Wrap(URLEndpoint \o ": Failed reading response body", NewError(r.cause))]
      [] r.kind = "http" /\ r.code # StatusOK ->
            [body |-> r.body, closed |-> 1,
             err |-> NewError(URLEndpoint \o ": HTTP status is " \o ToString(r.code))]
      [] OTHER -> [body |-> r.body, closed |-> 1, err |-> NoError]

(***************************************************************************)
(* Provider.Update, in the three stretches its two blocking calls cut it in *)
(***************************************************************************)

GetDataPath == "api/dns/getData"
ChangeRecordsPath == "/api/dns/changeRecords"

\* what Update returns: (newIP, err)
Return(ip, err) == [ip |-> ip, err |-> err]
NoReturn == Return(ZeroAddr, NoError)

\* the check with the comparison of the domain names left out
GetDataIndicatesSuccess_NoFQDN(d, target) ==
    ~(d.Status # "success" \/ d.AnswerStatus # "success")

\* line 181: the three checks of the getData response
GetDataIndicatesSuccess(d, target) ==
    ~(d.Status # "success" \/ d.AnswerStatus # "success" \/ d.FQDN # target)

\* the new record added to the A records fetched instead of replacing them
NewRecords_KeepOldA(records, priority, ip) ==
    IF "A" \in DOMAIN records.m
    THEN SetA(records, <<P("[")>> \o SubSeq(NewAEntryJSON(priority, ip), 2, 10) \o <<P(",")>>
                          \o Tail(records.m["A"]))
    ELSE SetA(records, NewAEntryJSON(priority, ip))

\* only the A record sent, the other record types left out
NewRecords_OnlyA(records, priority, ip) == SetA(MakeMap(<<>>), NewAEntryJSON(priority, ip))

\* lines 187-202: the records of the changeRecords request, the fetched map
\* with its "A" entry set to the one new record
NewRecords(records, priority, ip) == SetA(records, NewAEntryJSON(priority, ip))

\* the error of the getData call dropped, as line 210 drops the other call's
AfterGetData_ErrorDropped(prov, ip, call) ==
    LET d == Unmarshal("getDataResponse", call.body)
        stop(e) == [next |-> "return", ret |-> Return(ZeroAddr, e),
                    records |-> NilMap, payload |-> <<>>]
    IN  IF d.err
        THEN stop(Wrap("Failed unmarshalling getData response", NewError("json error")))
        ELSE IF d.Status # "success" \/ d.AnswerStatus # "success" \/ d.FQDN # prov.target
             THEN stop(NewError("getData response doesn't indicate success"))
        ELSE IF d.Records.nil
             THEN [next |-> "panic", ret |-> NoReturn, records |-> d.Records, payload |-> <<>>]
        ELSE [next |-> "call", ret |-> NoReturn, records |-> d.Records,
              payload |-> MarshalInputData(prov.target,
                                           SetA(d.Records, NewAEntryJSON(prov.priority, ip)))]

\* lines 171-207: from the return of the getData call to the changeRecords
\* payload. next is "return" (Update returns ret), "panic" (assignment to an
\* entry of a nil map, line 202) or "call" (changeRecords is called with payload)
AfterGetData(prov, ip, call) ==
    LET d == Unmarshal("getDataResponse", call.body)
        stop(e) == [next |-> "return", ret |-> Return(ZeroAddr, e),
                    records |-> NilMap, payload |-> <<>>]
    IN  IF ~IsNil(call.err) THEN stop(Wrap("Calling getData failed", call.err))
        ELSE IF d.err
             THEN stop(Wrap("Failed unmarshalling getData response", NewError("json error")))
        ELSE IF ~GetDataIndicatesSuccess(d, prov.target)
             THEN stop(NewError("getData response doesn't indicate success"))
        ELSE IF d.Records.nil
             THEN [next |-> "panic", ret |-> NoReturn, records |-> d.Records, payload |-> <<>>]
        ELSE [next |-> "call", ret |-> NoReturn, records |-> d.Records,
              payload |-> MarshalInputData(prov.target,
                                           NewRecords(d.Records, prov.priority, ip))]

\* line 224: the two checks of the changeRecords response
ChangeRecordsIndicatesSuccess(d) ==
    ~(d.Status # "success" \/ d.AnswerStatus # "success")

\* the named result newIP returned on success instead of ip
AfterChangeRecords_ReturnsNewIP(ip, call) ==
    LET d == Unmarshal("result", call.body) IN
    IF d.err
    THEN Return(ZeroAddr, Wrap("Failed unmarshalling changeRecords response",
                               NewError("json error")))
    ELSE IF ~(d.Status # "success" \/ d.AnswerStatus # "success")
    THEN Return(ZeroAddr, NoError)
    ELSE Return(ZeroAddr,
                [chain |-> <<"changeRequest response doesn't indicate success">>,
                 detail |-> ToSingleLine(call.body)])

\* the response body put into the error message as it came
AfterChangeRecords_RawBody(ip, call) ==
    LET d == Unmarshal("result", call.body) IN
    IF d.err
    THEN Return(ZeroAddr, Wrap("Failed unmarshalling changeRecords response",
                               NewError("json error")))
    ELSE IF d.Status # "success" \/ d.AnswerStatus # "success"
    THEN Return(ZeroAddr,
                [chain |-> <<"changeRequest response doesn't indicate success">>,
                 detail |-> call.body])
    ELSE Return(ip, NoError)

\* the input address handed back beside the error
AfterChangeRecords_IPWithError(ip, call) ==
    LET d == Unmarshal("result", call.body) IN
    IF d.err
    THEN Return(ip, Wrap("Failed unmarshalling changeRecords response",
                         NewError("json error")))
    ELSE IF d.Status # "success" \/ d.AnswerStatus # "success"
    THEN Return(ip,
                [chain |-> <<"changeRequest response doesn't indicate success">>,
                 detail |-> ToSingleLine(call.body)])
    ELSE Return(ip, NoError)

\* lines 210-227: from the return of the changeRecords call to Update's return;
\* the error apiCall returned is overwritten by json.Unmarshal's (line 219)
AfterChangeRecords(ip, call) ==
    LET d == Unmarshal("result", call.body) IN
    IF d.err
    THEN Return(ZeroAddr, Wrap("Failed unmarshalling changeRecords response",
                               NewError("json error")))
    ELSE IF ~ChangeRecordsIndicatesSuccess(d)
    THEN Return(ZeroAddr,
                [chain |-> <<"changeRequest response doesn't indicate success">>,
                 detail |-> ToSingleLine(call.body)])
    ELSE Return(ip, NoError)

(***************************************************************************)
(* The remote API (api.beget.com) and the transport, as Update sees them   *)
(***************************************************************************)

\* {"status": st, "answer": answer}
Envelope(st, answer) ==
    <<P("{"), Str("status"), P(":"), Str(st), P(","), Str("answer"), P(":")>>
        \o answer \o <<P("}")>>

\* {"status": ast, "result": result}
Answer(ast, result) ==
    <<P("{"), Str("status"), P(":"), Str(ast), P(","), Str("result"), P(":")>>
        \o result \o <<P("}")>>

RECURSIVE RenderMembers(_, _, _)
\* the members of a record set as the provider stores them, key k of KeyOrder on
RenderMembers(f, k, first) ==
    IF k > Len(KeyOrder) THEN <<>>
    ELSE IF KeyOrder[k] \in DOMAIN f
         THEN (IF first THEN <<>> ELSE <<P(",")>>)
                \o <<Str(KeyOrder[k]), P(":")>> \o f[KeyOrder[k]]
                \o RenderMembers(f, k + 1, FALSE)
         ELSE RenderMembers(f, k + 1, first)

RenderRecords(f) == <<P("{")>> \o RenderMembers(f, 1, TRUE) \o <<P("}")>>

\* the result of getData: the domain, fields Update does not read, the records
GetDataResult(fqdn, records) ==
    <<P("{"), Str("is_under_control"), P(":"), L("true"), P(","),
      Str("fqdn"), P(":"), Str(fqdn), P(","), Str("records"), P(":")>>
        \o records \o <<P("}")>>

\* the provider's answer to a getData request for fqdn, its record set being f
GetDataBody(fqdn, f) ==
    Envelope("success", Answer("success", GetDataResult(fqdn, RenderRecords(f))))

\* the provider's answer to a changeRecords request it applied
ChangeRecordsBody == Envelope("success", Answer("success", <<L("true")>>))

\* the fqdn and the records a request payload names, as the provider reads it
PayloadOf(toks) ==
    LET ms == Members(toks, SkipWS(toks, 1))
        at(key) == CHOOSE k \in DOMAIN ms : ms[k].key = key
    IN  [fqdn |-> Unquote(toks[ms[at("fqdn")].from]),
         records |->
            IF \E k \in DOMAIN ms : ms[k].key = "records" /\ toks[ms[k].from] = P("{")
            THEN MapWith(<<>>, toks, Members(toks, ms[at("records")].from))
            ELSE <<>>]

\* bodies a getData call can also come back with: statuses that are not
\* success, another domain, records missing, null or empty, the field names
\* capitalised as in the Go types, a wrong type, texts that are no JSON
OtherGetDataBodies(fqdn, f) ==
    { Envelope("error", Answer("success", GetDataResult(fqdn, RenderRecords(f)))),
      Envelope("success", Answer("error", GetDataResult(fqdn, RenderRecords(f)))),
      Envelope("success", Answer("success", GetDataResult("www." \o fqdn, RenderRecords(f)))),
      Envelope("success", Answer("success", GetDataResult("EXAMPLE.COM", RenderRecords(f)))),
      Envelope("success", Answer("success",
            <<P("{"), Str("fqdn"), P(":"), Str(fqdn), P("}")>>)),
      Envelope("success", Answer("success", GetDataResult(fqdn, <<L("null")>>))),
      Envelope("success", Answer("success", GetDataResult(fqdn, <<P("{"), P("}")>>))),
      Envelope("success", Answer("success",
            <<P("{"), Str("fqdn"), P(":"), Str(fqdn), P(","), Str("records"), P(":")>>
                \o RenderRecords(f)
                \o <<P(","), Str("records"), P(":"), L("null"), P("}")>>)),
      <<P("{"), W("\n"), Str("Status"), P(":"), W(" "), Str("success"), P(","), W("\n"),
        Str("Answer"), P(":")>>
        \o <<P("{"), Str("Status"), P(":"), Str("success"), P(","), Str("Result"), P(":"),
             P("{"), Str("fqdn"), P(":"), Str(fqdn), P(","), Str("Records"), P(":")>>
        \o RenderRecords(f) \o <<P("}"), P("}"), W("\n"), P("}")>>,
      <<P("{"), Str("status"), P(":"), N(1), P("}")>>,
      <<L("null")>>,
      <<P("{"), Str("status"), P(":"), Str("success"), P(",")>>,
      <<X("<html>")>>,
      <<>> }

\* bodies a changeRecords call can also come back with
OtherChangeRecordsBodies ==
    { <<P("{"), W("\n"), W(" "), W(" "), Str("status"), P(":"), W(" "), Str("error"), P(","),
        W("\r"), W("\n"), W(" "), W(" "), Str("error_text"), P(":"), W(" "),
        Str("No such method"), W("\n"), P("}"), W("\n")>>,
      <<P("{"), Str("status"), P(":"), Str("success"), P(","), W("\n"), Str("answer"), P(":"),
        P("{"), Str("status"), P(":"), Str("error"), P(","), W("\n"), Str("errors"), P(":"),
        P("["), Str("INVALID_DATA"), P("]"), P("}"), P("}")>>,
      <<P("{"), W("\n"), Str("Status"), P(":"), Str("success"), P(","), W("\n"),
        Str("Answer"), P(":"), P("{"), Str("Status"), P(":"), Str("success"), P(","),
        Str("Result"), P(":"), L("true"), P("}"), W("\n"), P("}")>>,
      Envelope("success", Answer("success", <<Str("ok")>>)),
      <<L("null")>>,
      <<X("<html>")>>,
      <<>> }

(***************************************************************************)
(* State                                                                   *)
(***************************************************************************)

\* number of times the scheduler calls Update, one call after the other
MaxCalls == 2
\* number of changes another writer makes to the provider's record set
MaxOtherWrites == 1

\* the invocations of Update that can be running
Inv == {1, 2}
\* the scheduler's use: one invocation at a time, the slot called again after
\* it has returned
Serial == {1}

VARIABLES
    config,       \* the arguments New was called with
    newRet,       \* what New returned: called, nil (no instance), err
    q,            \* a second instance, built by a later call of New
    elsewhere,    \* the record set the provider holds for the domain of q
    recv,         \* per invocation: the instance Update was called on, "p" or "q"
    p,            \* the Provider instance (lines 20-29)
    server,       \* the record set of p.target at the provider: type -> raw text
    otherWrites,  \* changes made by the other writer so far
    calls,        \* calls of Update so far
    pc,           \* per invocation: idle, fetching, writing, done, panicked
    ctx,          \* per invocation: the context: none, nil, live, canceled
    ip,           \* per invocation: the ip argument
    reqs,         \* per invocation: the requests handed to client.Do, in order
    fetchResp,    \* per invocation: how the getData call ended
    writeResp,    \* per invocation: how the changeRecords call ended
    fetched,      \* per invocation: Answer.Result.Records as decoded (line 176)
    raced,        \* per invocation: the record types the other writer changed
                  \* between the getData response and the changeRecords response
    ret,          \* per invocation: what Update returned
    apiRets       \* per invocation: what its apiCall calls returned, in order

vars == <<config, newRet, q, elsewhere, recv, p, server, otherWrites, calls, pc, ctx, ip, reqs,
          fetchResp, writeResp, fetched, raced, ret, apiRets>>

\* the instance with every field taken from the first one built
Self_Shared(i) == p

\* the receiver of invocation i: func (p *Provider) Update (line 157)
Self(i) == IF recv[i] = "q" THEN q ELSE p

\* the record set the provider holds for the domain fqdn
Zone(fqdn) == IF fqdn = p.target THEN server ELSE elsewhere

\* provider instances as New builds them (lines 65-72): target is the
\* unstripped name of the configuration, domain the stripped one
Providers ==
    { [domain |-> "example.com", target |-> "home.example.com", owner |-> "@",
       login |-> "user", password |-> "secret", priority |-> 10],
      [domain |-> "example.org", target |-> "example.org", owner |-> "@",
       login |-> "admin", password |-> "hunter2", priority |-> 0] }

\* a configuration blob: the JSON object of the four settings
SettingsJSON(login, password, domain, priority) ==
    <<P("{"), Str("login"), P(":"), Str(login), P(","), Str("password"), P(":"), Str(password),
      P(","), W(" "), Str("domain"), P(":"), Str(domain), P(","), Str("priority"), P(":"),
      N(priority), P("}")>>

\* the arguments New is called with: the two configurations of Providers; a
\* domain that is no domain name; no domain; a text that is not JSON; a
\* priority of the wrong type beside a domain that is no domain name
Configs ==
    { [data |-> SettingsJSON("user", "secret", "home.example.com", 10),
       domain |-> "example.com", owner |-> "@"],
      [data |-> SettingsJSON("admin", "hunter2", "example.org", 0),
       domain |-> "example.org", owner |-> "@"],
      [data |-> SettingsJSON("user", "secret", "bad domain!", 10),
       domain |-> "example.com", owner |-> "@"],
      [data |-> <<P("{"), Str("login"), P(":"), Str("user"), P(","), Str("password"), P(":"),
                  Str("secret"), P("}")>>,
       domain |-> "example.com", owner |-> "@"],
      [data |-> <<P("{"), Str("login"), P(":"), Str("user"), P(",")>>,
       domain |-> "example.com", owner |-> "@"],
      [data |-> <<P("{"), Str("domain"), P(":"), Str("bad domain!"), P(","), Str("priority"),
                  P(":"), Str("10"), P("}")>>,
       domain |-> "example.com", owner |-> "@"] }

NoConfig == [data |-> <<>>, domain |-> "", owner |-> ""]

\* the first instance of a program that builds two: one for a domain whose
\* domain argument differs from it, or none
OverlapConfigs == {c \in Configs : c.domain = "example.com"}

\* the record set of the second instance's domain at first
ElsewhereRecords ==
    [A |-> <<P("["), P("{"), Str("priority"), P(":"), N(10), P(","), Str("value"), P(":"),
             Str("192.0.2.44"), P("}"), P("]")>>,
     TXT |-> <<P("["), W(" "), Str("elsewhere"), P("]")>>]

\* the addresses Update is called with
Addrs == { IP4(203, 0, 113, 5), IP4(10, 0, 0, 1) }

\* record sets the domain may hold at first: an A record among others written
\* with spaces and characters json.Marshal escapes; several A records; none
InitialRecordSets ==
    { [A |-> <<P("["), P("{"), Str("priority"), P(":"), N(10), P(","), Str("value"), P(":"),
               Str("198.51.100.7"), P("}"), P("]")>>,
       MX |-> <<P("["), W(" "), Str("mx1.example.com"), W(" "), P("]")>>,
       TXT |-> <<P("["), S(<<"v=spf1 a", "&", "mx -all">>), P("]")>>],
      [A |-> <<P("["), P("{"), Str("priority"), P(":"), N(10), P(","), Str("value"), P(":"),
               Str("198.51.100.7"), P("}"), P(","), P("{"), Str("priority"), P(":"), N(20),
               P(","), Str("value"), P(":"), Str("198.51.100.8"), P("}"), P("]")>>,
       TXT |-> <<P("["), Str("v=spf1"), P("]")>>],
      [TXT |-> <<P("["), Str("v=spf1"), P("]")>>] }

\* what the other writer sets a record type to
OtherValues == { <<P("["), Str("mx2.example.com"), P("]")>> }

NoResponse == [kind |-> "none", cause |-> "", code |-> 0, body |-> <<>>, applied |-> FALSE]
NoRequest == [kind |-> "norequest", cause |-> "", code |-> 0, body |-> <<>>, applied |-> FALSE]
DoError(cause) == [kind |-> "doerr", cause |-> cause, code |-> 0, body |-> <<>>, applied |-> FALSE]
ReadError(cause, applied) ==
    [kind |-> "readerr", cause |-> cause, code |-> StatusOK, body |-> <<P("{")>>,
     applied |-> applied]
Response(code, body, applied) ==
    [kind |-> "http", cause |-> "", code |-> code, body |-> body, applied |-> applied]

\* how a getData call made with context c can end, the provider holding f
GetDataOutcomes(c, fqdn, f) ==
    IF c = "canceled" THEN { DoError(ErrCanceled), ReadError(ErrCanceled, FALSE) }
    ELSE { DoError(ErrNetwork), ReadError(ErrNetwork, FALSE),
           Response(StatusOK, GetDataBody(fqdn, f), FALSE),
           Response(500, GetDataBody(fqdn, f), FALSE),
           Response(500, <<X("<html>")>>, FALSE) }
         \cup { Response(StatusOK, b, FALSE) : b \in OtherGetDataBodies(fqdn, f) }

\* how a changeRecords call made with context c can end; applied tells
\* whether the provider replaced its record set by the request's
ChangeRecordsOutcomes(c) ==
    IF c = "canceled" THEN { DoError(ErrCanceled), ReadError(ErrCanceled, FALSE) }
    ELSE { DoError(ErrNetwork), ReadError(ErrNetwork, FALSE), ReadError(ErrNetwork, TRUE),
           Response(StatusOK, ChangeRecordsBody, TRUE),
           Response(500, ChangeRecordsBody, FALSE),
           Response(500, <<X("<html>")>>, FALSE) }
         \cup { Response(StatusOK, b, FALSE) : b \in OtherChangeRecordsBodies }

\* overlapping invocations: the provider answers as it should or not at all
OverlapGetDataOutcomes(fqdn, f) ==
    { DoError(ErrNetwork), Response(StatusOK, GetDataBody(fqdn, f), FALSE) }
OverlapChangeRecordsOutcomes ==
    { ReadError(ErrNetwork, FALSE), Response(StatusOK, ChangeRecordsBody, TRUE) }

Init ==
    /\ config = NoConfig
    /\ newRet = [called |-> FALSE, nil |-> TRUE, err |-> NoError]
    /\ p = ZeroProvider
    /\ q = ZeroProvider
    /\ elsewhere = ElsewhereRecords
    /\ recv = [i \in Inv |-> "p"]
    /\ server \in InitialRecordSets
    /\ otherWrites = 0
    /\ calls = 0
    /\ pc = [i \in Inv |-> "idle"]
    /\ ctx = [i \in Inv |-> "none"]
    /\ ip = [i \in Inv |-> ZeroAddr]
    /\ reqs = [i \in Inv |-> <<>>]
    /\ fetchResp = [i \in Inv |-> NoResponse]
    /\ writeResp = [i \in Inv |-> NoResponse]
    /\ fetched = [i \in Inv |-> NilMap]
    /\ raced = [i \in Inv |-> {}]
    /\ ret = [i \in Inv |-> NoReturn]
    /\ apiRets = [i \in Inv |-> <<>>]

(***************************************************************************)
(* Actions                                                                 *)
(***************************************************************************)

\* the program builds its provider: New(c.data, c.domain, c.owner)
NewCall(c) ==
    /\ ~newRet.called
    /\ config' = c
    /\ LET r == New(c.data, c.domain, c.owner) IN
        /\ newRet' = [called |-> TRUE, nil |-> r.nil, err |-> r.err]
        /\ p' = r.p
    /\ UNCHANGED <<q, elsewhere, recv, server, otherWrites, calls, pc, ctx, ip, reqs, fetchResp,
                   writeResp, fetched, raced, ret, apiRets>>

\* the program builds a second provider, for another domain:
\* New(c.data, c.domain, c.owner) once more
NewCallAgain(c) ==
    /\ newRet.called /\ ~newRet.nil
    /\ q = ZeroProvider
    /\ LET r == New(c.data, c.domain, c.owner) IN
        /\ ~r.nil
        /\ r.p.target # p.target
        /\ q' = r.p
    /\ UNCHANGED <<config, newRet, elsewhere, recv, p, server, otherWrites, calls, pc, ctx, ip,
                   reqs, fetchResp, writeResp, fetched, raced, ret, apiRets>>

\* the scheduler calls Update(c, client, a) on instance on, one New
\* returned, for the first time or after the call before has returned:
\* lines 157-170 and apiCall to client.Do (lines 117-139)
UpdateCall(i, on, c, a) ==
    /\ newRet.called /\ ~newRet.nil
    /\ on = "q" => q # ZeroProvider
    /\ pc[i] \in {"idle", "done"}
    /\ recv' = [recv EXCEPT ![i] = on]
    /\ UNCHANGED <<config, newRet, q, elsewhere, p, server, otherWrites>>
    /\ calls < MaxCalls
    /\ calls' = calls + 1
    /\ ctx' = [ctx EXCEPT ![i] = c]
    /\ ip' = [ip EXCEPT ![i] = a]
    /\ writeResp' = [writeResp EXCEPT ![i] = NoResponse]
    /\ fetched' = [fetched EXCEPT ![i] = NilMap]
    /\ raced' = [raced EXCEPT ![i] = {}]
    /\ IF c = "nil"
       THEN LET call == ApiCallReturn(GetDataPath, NoRequest) IN
            /\ pc' = [pc EXCEPT ![i] = "done"]
            /\ fetchResp' = [fetchResp EXCEPT ![i] = NoRequest]
            /\ apiRets' = [apiRets EXCEPT ![i] = <<call>>]
            /\ ret' = [ret EXCEPT ![i] = AfterGetData(Self(i)', a, call).ret]
            /\ reqs' = [reqs EXCEPT ![i] = <<>>]
       ELSE /\ pc' = [pc EXCEPT ![i] = "fetching"]
            /\ fetchResp' = [fetchResp EXCEPT ![i] = NoResponse]
            /\ apiRets' = [apiRets EXCEPT ![i] = <<>>]
            /\ reqs' = [reqs EXCEPT ![i] =
                        <<Request(Self(i)', GetDataPath,
                                  MarshalGetDataRequest(Self(i)'.target))>>]
            /\ ret' = [ret EXCEPT ![i] = NoReturn]

\* the caller cancels the context of a running invocation
Cancel(i) ==
    /\ pc[i] \in {"fetching", "writing"}
    /\ ctx[i] = "live"
    /\ ctx' = [ctx EXCEPT ![i] = "canceled"]
    /\ UNCHANGED <<config, newRet, q, elsewhere, recv, p, server, otherWrites, calls, pc, ip,
                   reqs, fetchResp, writeResp, fetched, raced, ret, apiRets>>

\* the getData call ends with outcome r: the rest of apiCall (lines 139-154),
\* then lines 171-210 up to client.Do of the changeRecords call
GetDataReturn(i, r) ==
    /\ pc[i] = "fetching"
    /\ fetchResp' = [fetchResp EXCEPT ![i] = r]
    /\ apiRets' = [apiRets EXCEPT ![i] = Append(@, ApiCallReturn(GetDataPath, r))]
    /\ LET step == AfterGetData(Self(i), ip[i], ApiCallReturn(GetDataPath, r)) IN
        /\ fetched' = [fetched EXCEPT ![i] = step.records]
        /\ CASE step.next = "return" ->
                    /\ pc' = [pc EXCEPT ![i] = "done"]
                    /\ ret' = [ret EXCEPT ![i] = step.ret]
                    /\ reqs' = reqs
             [] step.next = "panic" ->
                    /\ pc' = [pc EXCEPT ![i] = "panicked"]
                    /\ UNCHANGED <<ret, reqs>>
             [] OTHER ->
                    /\ pc' = [pc EXCEPT ![i] = "writing"]
                    /\ reqs' = [reqs EXCEPT ![i] =
                                Append(@, Request(Self(i), ChangeRecordsPath, step.payload))]
                    /\ ret' = ret
    /\ UNCHANGED <<config, newRet, q, elsewhere, recv, p, server, otherWrites, calls, ctx, ip,
                   writeResp, raced>>

\* the changeRecords call ends with outcome r: the provider replaces the
\* record set of the domain the request names if it applied the request;
\* the rest of apiCall, then lines 210-227
ChangeRecordsReturn(i, r) ==
    /\ pc[i] = "writing"
    /\ writeResp' = [writeResp EXCEPT ![i] = r]
    /\ LET sent == PayloadOf(reqs[i][Len(reqs[i])].input_data) IN
        /\ server' = IF r.applied /\ sent.fqdn = p.target THEN sent.records ELSE server
        /\ elsewhere' = IF r.applied /\ sent.fqdn # p.target THEN sent.records ELSE elsewhere
    /\ apiRets' = [apiRets EXCEPT ![i] = Append(@, ApiCallReturn(ChangeRecordsPath, r))]
    /\ ret' = [ret EXCEPT ![i] = AfterChangeRecords(ip[i], ApiCallReturn(ChangeRecordsPath, r))]
    /\ pc' = [pc EXCEPT ![i] = "done"]
    /\ UNCHANGED <<config, newRet, q, recv, p, otherWrites, calls, ctx, ip, reqs, fetchResp,
                   fetched, raced>>

\* another writer sets record type k of the domain to v at the provider
OtherWriter(k, v) ==
    /\ otherWrites < MaxOtherWrites
    /\ otherWrites' = otherWrites + 1
    /\ server' = [key \in (DOMAIN server) \cup {k} |-> IF key = k THEN v ELSE server[key]]
    /\ raced' = [i \in Inv |-> IF pc[i] = "writing" THEN raced[i] \cup {k} ELSE raced[i]]
    /\ UNCHANGED <<config, newRet, q, elsewhere, recv, p, calls, pc, ctx, ip, reqs, fetchResp,
                   writeResp, fetched, ret, apiRets>>

Next ==
    \/ \E c \in Configs : NewCall(c)
    \/ \E i \in Serial, c \in {"nil", "live", "canceled"}, a \in Addrs : UpdateCall(i, "p", c, a)
    \/ \E i \in Serial : Cancel(i)
    \/ \E i \in Serial : \E r \in GetDataOutcomes(ctx[i], p.target, server) : GetDataReturn(i, r)
    \/ \E i \in Serial : \E r \in ChangeRecordsOutcomes(ctx[i]) : ChangeRecordsReturn(i, r)
    \/ \E k \in {"MX", "TXT"}, v \in OtherValues : OtherWriter(k, v)

Spec == Init /\ [][Next]_vars

\* Update called on one instance or on two by callers that do not wait for
\* each other
NextOverlap ==
    \/ \E c \in OverlapConfigs : NewCall(c)
    \/ \E c \in Configs : NewCallAgain(c)
    \/ \E i \in Inv, on \in {"p", "q"}, a \in Addrs : UpdateCall(i, on, "live", a)
    \/ \E i \in Inv : \E r \in OverlapGetDataOutcomes(Self(i).target, Zone(Self(i).target)) :
            GetDataReturn(i, r)
    \/ \E i \in Inv : \E r \in OverlapChangeRecordsOutcomes : ChangeRecordsReturn(i, r)
    \/ \E v \in OtherValues : OtherWriter("MX", v)

\* the domain of the first instance holds records of all three types
InitOverlap == Init /\ "MX" \in DOMAIN server

SpecOverlap == InitOverlap /\ [][NextOverlap]_vars

(***************************************************************************)
(* Vocabulary of the properties                                            *)
(***************************************************************************)

\* the positions of the changeRecords requests invocation i has issued
WriteRequests(i) == {k \in DOMAIN reqs[i] : reqs[i][k].path = ChangeRecordsPath}
FetchRequests(i) == {k \in DOMAIN reqs[i] : reqs[i][k].path = GetDataPath}
WriteIssued(i) == WriteRequests(i) # {}

\* the getData response of invocation i as json.Unmarshal decodes its body
FetchDecoded(i) == Unmarshal("getDataResponse", fetchResp[i].body)
\* a getData response body arrived, decodes into the envelope and passes
\* the three checks
FetchPasses(i) ==
    LET d == FetchDecoded(i) IN
    /\ fetchResp[i].kind = "http"
    /\ ~d.err
    /\ d.Status = "success"
    /\ d.AnswerStatus = "success"
    /\ d.FQDN = p.target

\* the changeRecords response of invocation i as json.Unmarshal decodes it
WriteDecoded(i) == Unmarshal("result", writeResp[i].body)
\* a changeRecords response body arrived, decodes and has both statuses
\* "success"
WriteSucceeds(i) ==
    LET d == WriteDecoded(i) IN
    /\ writeResp[i].kind = "http"
    /\ ~d.err
    /\ d.Status = "success"
    /\ d.AnswerStatus = "success"

\* the records mapping of the k-th request of invocation i
RecordsSent(i, k) == PayloadOf(reqs[i][k].input_data).records

RECURSIVE Canon(_)
\* the JSON value a raw text denotes: whitespace between tokens dropped,
\* string literals replaced by the strings they decode to
Canon(raw) ==
    IF raw = <<>> THEN <<>>
    ELSE IF Head(raw).t = "w" THEN Canon(Tail(raw))
    ELSE IF Head(raw).t = "s" THEN <<Str(Unquote(Head(raw)))>> \o Canon(Tail(raw))
    ELSE <<Head(raw)>> \o Canon(Tail(raw))

(***************************************************************************)
(* C1                                                                      *)
(***************************************************************************)

\* C1: if the getData response decodes and its outer status or its nested
\* status is not "success", or its fqdn is not the configured target, Update
\* has returned a non-nil error and the invocation has issued no
\* changeRecords request.
C1_NoWriteAfterBadFetch ==
    \A i \in Inv :
        LET d == FetchDecoded(i) IN
        ( /\ fetchResp[i].kind = "http"
          /\ ~d.err
          /\ \/ d.Status # "success"
             \/ d.AnswerStatus # "success"
             \/ d.FQDN # p.target )
        => /\ pc[i] = "done"
           /\ ~IsNil(ret[i].err)
           /\ ~WriteIssued(i)

\* a getData response with HTTP 200 and both statuses "success" that names
\* another domain was received, and Update has returned
C1_Witness ==
    \E i \in Inv :
        LET d == FetchDecoded(i) IN
        /\ fetchResp[i].kind = "http" /\ fetchResp[i].code = StatusOK
        /\ ~d.err
        /\ d.Status = "success"
        /\ d.AnswerStatus = "success"
        /\ d.FQDN # p.target
        /\ pc[i] = "done"

(***************************************************************************)
(* C2                                                                      *)
(***************************************************************************)

\* raw is a JSON list of exactly one object, whose members are exactly
\* "priority": priority and "value": value
IsSingleARecord(raw, priority, value) ==
    /\ Valid(raw)
    /\ raw[1] = P("[")
    /\ Len(raw) >= 4
    /\ raw[2] = P("{")
    /\ ValueEnd(raw, 2) = Len(raw) - 1
    /\ LET ms == Members(raw, 2) IN
        /\ Len(ms) = 2
        /\ \E k \in DOMAIN ms :
              /\ ms[k].key = "priority"
              /\ ms[k].from = ms[k].to
              /\ raw[ms[k].from] = N(priority)
        /\ \E k \in DOMAIN ms :
              /\ ms[k].key = "value"
              /\ ms[k].from = ms[k].to
              /\ raw[ms[k].from].t = "s"
              /\ Unquote(raw[ms[k].from]) = value

\* C2: in every changeRecords request Update issues, the value under "A" of
\* the records mapping is the list of the one record {priority: configured
\* priority, value: ip.String()}, whatever the fetched mapping held under "A".
C2_SingleARecord ==
    \A i \in Inv : \A k \in WriteRequests(i) :
        LET sent == RecordsSent(i, k) IN
        /\ "A" \in DOMAIN sent
        /\ IsSingleARecord(sent["A"], p.priority, IPString(ip[i]))

\* a changeRecords request was issued for 203.0.113.5 after a fetch that
\* returned two A records, and the request holds the one new record
C2_Witness ==
    \E i \in Inv : \E k \in WriteRequests(i) :
        /\ ip[i] = IP4(203, 0, 113, 5)
        /\ "A" \in DOMAIN fetched[i].m
        /\ \E e \in DOMAIN fetched[i].m["A"] : fetched[i].m["A"][e] = Str("198.51.100.8")
        /\ IsSingleARecord(RecordsSent(i, k)["A"], p.priority, "203.0.113.5")

(***************************************************************************)
(* C3                                                                      *)
(***************************************************************************)

\* C3 as stated: in every changeRecords request, every record type other
\* than "A" of the fetched mapping is sent with its fetched raw value
\* unmodified, and the keys sent are the fetched keys plus "A".
C3_RawUnmodified ==
    \A i \in Inv : \A k \in WriteRequests(i) :
        LET sent == RecordsSent(i, k) IN
        /\ DOMAIN sent = (DOMAIN fetched[i].m) \cup {"A"}
        /\ \A key \in (DOMAIN fetched[i].m) \ {"A"} : sent[key] = fetched[i].m[key]

\* C3, amended: in every changeRecords request, every record type other than
\* "A" of the fetched mapping is sent with a raw text that denotes the JSON
\* value fetched (json.Marshal rewrites the text: whitespace between tokens
\* is dropped and <, > and & are written as \u escapes), and the keys sent
\* are the fetched keys plus "A".
C3_ValuePreserved ==
    \A i \in Inv : \A k \in WriteRequests(i) :
        LET sent == RecordsSent(i, k) IN
        /\ DOMAIN sent = (DOMAIN fetched[i].m) \cup {"A"}
        /\ \A key \in (DOMAIN fetched[i].m) \ {"A"} :
              Canon(sent[key]) = Canon(fetched[i].m[key])

\* a changeRecords request was issued after a fetch that returned MX and TXT
\* records, the MX one written with spaces, and both are in the request
C3_Witness ==
    \E i \in Inv : \E k \in WriteRequests(i) :
        /\ {"MX", "TXT"} \subseteq DOMAIN fetched[i].m
        /\ \E e \in DOMAIN fetched[i].m["MX"] : fetched[i].m["MX"][e].t = "w"
        /\ {"MX", "TXT"} \subseteq DOMAIN RecordsSent(i, k)

(***************************************************************************)
(* C4                                                                      *)
(***************************************************************************)

\* a call that ended in a transport-level failure: client.Do failed, reading
\* the body failed, or the HTTP status is not 200
TransportFailure(r) ==
    \/ r.kind \in {"doerr", "readerr"}
    \/ r.kind = "http" /\ r.code # StatusOK

\* C4: whenever the getData call or the changeRecords call of an invocation
\* ended in a transport-level failure, Update returns a non-nil error.
C4_TransportFailureReturned ==
    \A i \in Inv :
        (pc[i] = "done" /\ (TransportFailure(fetchResp[i]) \/ TransportFailure(writeResp[i])))
        => ~IsNil(ret[i].err)

(***************************************************************************)
(* C5                                                                      *)
(***************************************************************************)

\* C5: if the changeRecords response decodes into an envelope whose outer and
\* nested status are both "success", Update returns the ip it was given and
\* a nil error.
C5_SuccessEchoesIP ==
    \A i \in Inv :
        (pc[i] = "done" /\ WriteSucceeds(i))
        => /\ ret[i].ip = ip[i]
           /\ ret[i].ip.valid
           /\ IsNil(ret[i].err)

\* Update was called with 10.0.0.1, the changeRecords response came with
\* status 200 and both statuses "success", and Update returned 10.0.0.1
C5_Witness ==
    \E i \in Inv :
        /\ pc[i] = "done"
        /\ writeResp[i].code = StatusOK
        /\ WriteSucceeds(i)
        /\ ip[i] = IP4(10, 0, 0, 1)
        /\ ret[i].ip = IP4(10, 0, 0, 1)

(***************************************************************************)
(* C6                                                                      *)
(***************************************************************************)

\* C6: if the changeRecords response decodes into an envelope whose outer or
\* nested status is not "success", Update returns a non-nil error whose
\* message carries the response body, token for token, without any line
\* break.
C6_FailureMessageSingleLine ==
    \A i \in Inv :
        LET d == WriteDecoded(i) IN
        ( /\ pc[i] = "done"
          /\ writeResp[i].kind = "http"
          /\ ~d.err
          /\ \/ d.Status # "success"
             \/ d.AnswerStatus # "success" )
        => /\ ~IsNil(ret[i].err)
           /\ ret[i].err.detail # <<>>
           /\ \A k \in DOMAIN ret[i].err.detail :
                 ret[i].err.detail[k] \notin {W("\n"), W("\r")}
           /\ Canon(ret[i].err.detail) = Canon(writeResp[i].body)

\* a changeRecords response whose body has line breaks and a nested status
\* "error" under an outer status "success" was received, and Update returned
C6_Witness ==
    \E i \in Inv :
        /\ pc[i] = "done"
        /\ writeResp[i].kind = "http"
        /\ ~WriteDecoded(i).err
        /\ WriteDecoded(i).Status = "success"
        /\ WriteDecoded(i).AnswerStatus = "error"
        /\ \E k \in DOMAIN writeResp[i].body : writeResp[i].body[k] = W("\n")
        /\ ~IsNil(ret[i].err)

(***************************************************************************)
(* C7                                                                      *)
(***************************************************************************)

\* C7: every invocation of Update that has ended has returned: with a nil
\* error if, in that invocation, the getData response passed the three
\* checks, a changeRecords request was issued and the changeRecords response
\* had both statuses "success"; with a non-nil error in every other outcome.
C7_NoPartialSuccess ==
    \A i \in Inv :
        pc[i] \in {"done", "panicked"}
        => /\ pc[i] = "done"
           /\ IsNil(ret[i].err) <=> (WriteIssued(i) /\ WriteSucceeds(i) /\ FetchPasses(i))

(***************************************************************************)
(* C8                                                                      *)
(***************************************************************************)

\* C8: Update fetches once and sends back what it fetched, whatever the
\* provider holds by then: when the provider applies the changeRecords
\* request of an invocation, its record set becomes the mapping that
\* invocation fetched with "A" replaced (the last write wins), so a change
\* another writer made in between is lost.
C8_LastWriteWins ==
    /\ [](\A i \in Inv : Cardinality(FetchRequests(i)) <= 1)
    /\ [][\A i \in Inv :
            (pc[i] = "writing" /\ pc'[i] = "done" /\ writeResp'[i].applied)
            => /\ DOMAIN server' = (DOMAIN fetched[i].m) \cup {"A"}
               /\ \A key \in (DOMAIN fetched[i].m) \ {"A"} :
                     Canon(server'[key]) = Canon(fetched[i].m[key])]_vars

\* the other writer changed a record type Update had fetched while the
\* changeRecords call was on its way, Update then returned a nil error, and
\* the provider holds the value Update fetched, not the other writer's
C8_Witness ==
    \E i \in Inv : \E key \in raced[i] :
        /\ pc[i] = "done"
        /\ IsNil(ret[i].err)
        /\ writeResp[i].applied
        /\ key \in DOMAIN fetched[i].m
        /\ Canon(server[key]) = Canon(fetched[i].m[key])
        /\ \A v \in OtherValues : Canon(server[key]) # Canon(v)

(***************************************************************************)
(* C9                                                                      *)
(***************************************************************************)

\* C9: an invocation issues at most one getData request and at most one
\* changeRecords request; the changeRecords request comes second, after the
\* getData response was received and passed the checks; an invocation that
\* failed before the changeRecords call has issued no changeRecords request,
\* and none is issued once a changeRecords response has come.
C9_NoRetries ==
    \A i \in Inv :
        /\ Len(reqs[i]) <= 2
        /\ Cardinality(FetchRequests(i)) <= 1
        /\ Cardinality(WriteRequests(i)) <= 1
        /\ \A k \in WriteRequests(i) :
              /\ k = 2
              /\ reqs[i][1].path = GetDataPath
              /\ fetchResp[i].kind = "http"
              /\ fetchResp[i].code = StatusOK
              /\ FetchPasses(i)
        /\ (pc[i] = "done" /\ writeResp[i].kind = "none") => ~WriteIssued(i)
        /\ (pc[i] = "fetching") => Len(reqs[i]) = 1
        /\ (pc[i] = "writing") => (Len(reqs[i]) = 2 /\ writeResp[i].kind = "none")

\* the changeRecords call of an invocation failed, Update returned the error,
\* and the invocation has issued its two requests and no more
C9_Witness ==
    \E i \in Inv :
        /\ pc[i] = "done"
        /\ ~IsNil(ret[i].err)
        /\ writeResp[i].kind = "doerr"
        /\ Len(reqs[i]) = 2
        /\ reqs[i][1].path = GetDataPath
        /\ reqs[i][2].path = ChangeRecordsPath

(***************************************************************************)
(* C10                                                                     *)
(***************************************************************************)

\* C10: if the context is cancelled before or during the getData call or the
\* changeRecords call, so that the call ends with the cancellation error,
\* Update returns a non-nil error that wraps context.Canceled, and no further
\* request is issued.
C10_CancellationWrapped ==
    \A i \in Inv :
        (pc[i] = "done" /\ ErrCanceled \in {fetchResp[i].cause, writeResp[i].cause})
        => /\ ~IsNil(ret[i].err)
           /\ ErrorsIs(ret[i].err, ErrCanceled)
           /\ (fetchResp[i].cause = ErrCanceled => ~WriteIssued(i))

(***************************************************************************)
(* C11                                                                     *)
(***************************************************************************)

\* C11: once New has returned: if the configuration decoded and its domain
\* is not a valid domain name, New returned no instance and an error that
\* wraps ErrDomainNotValid; if New returned an instance, the configuration
\* decoded, its domain passed the check, the error is nil and the instance
\* is the one the configuration describes; New returns no instance without
\* an error.
C11_ConstructionValidated ==
    newRet.called =>
        LET s == UnmarshalSettings(config.data) IN
        /\ (~s.err /\ ~IsNil(CheckDomain(s.Domain)))
           => (newRet.nil /\ ErrorsIs(newRet.err, ErrDomainNotValid))
        /\ ~newRet.nil
           => (~s.err /\ IsNil(CheckDomain(s.Domain)) /\ IsNil(newRet.err) /\ p \in Providers)
        /\ newRet.nil => (~IsNil(newRet.err) /\ p = ZeroProvider)

\* New was called with a configuration that decodes and whose domain is no
\* domain name, and returned the domain error and no instance
C11_Witness ==
    /\ newRet.called
    /\ ~UnmarshalSettings(config.data).err
    /\ UnmarshalSettings(config.data).Domain = "bad domain!"
    /\ newRet.nil
    /\ ErrorsIs(newRet.err, ErrDomainNotValid)

(***************************************************************************)
(* C12                                                                     *)
(***************************************************************************)

\* C12: an invocation that has issued a changeRecords request got its getData
\* response without transport error, with HTTP status 200 and a body that
\* decodes and passes the three checks; an invocation whose getData call
\* ended with a transport failure, with a status other than 200 or with a
\* body that does not decode has returned a non-nil error, the zero address
\* and has issued no changeRecords request.
C12_WriteOnlyAfterGoodFetch ==
    \A i \in Inv :
        LET r == fetchResp[i]
            d == FetchDecoded(i)
        IN  /\ WriteIssued(i)
               => (r.kind = "http" /\ r.code = StatusOK /\ ~d.err /\ d.Status = "success"
                   /\ d.AnswerStatus = "success" /\ d.FQDN = p.target)
            /\ (pc[i] = "done"
                /\ (\/ r.kind \in {"norequest", "doerr", "readerr"}
                    \/ (r.kind = "http" /\ (r.code # StatusOK \/ d.err))))
               => (~IsNil(ret[i].err) /\ ret[i].ip = ZeroAddr /\ ~WriteIssued(i)
                   /\ writeResp[i] = NoResponse)

\* the getData call of an invocation got status 500 with a body that would
\* pass the three checks, and Update returned an error without writing
C12_Witness ==
    \E i \in Inv :
        /\ pc[i] = "done"
        /\ fetchResp[i].kind = "http"
        /\ fetchResp[i].code # StatusOK
        /\ FetchPasses(i)
        /\ ~IsNil(ret[i].err)
        /\ ~WriteIssued(i)

(***************************************************************************)
(* C13                                                                     *)
(***************************************************************************)

\* C13: no invocation terminates abnormally, and an invocation whose getData
\* response came with status 200 and passes the three checks - whatever its
\* records mapping, empty or absent or null - has gone on to issue a
\* changeRecords request whose records hold "A".
C13_NoAbnormalTermination ==
    \A i \in Inv :
        /\ pc[i] # "panicked"
        /\ (pc[i] \notin {"idle", "fetching"} /\ fetchResp[i].kind = "http"
            /\ fetchResp[i].code = StatusOK /\ FetchPasses(i))
           => \E k \in WriteRequests(i) : "A" \in DOMAIN RecordsSent(i, k)

(***************************************************************************)
(* C14                                                                     *)
(***************************************************************************)

\* how the transport of the k-th apiCall call of invocation i ended
Outcome(i, k) == IF k = 1 THEN fetchResp[i] ELSE writeResp[i]

\* C14: every call of apiCall that has returned: with a nil error only when
\* the request was performed, the body read in full and the status 200, and
\* then with that body; with the full body and a non-nil error when the
\* status is not 200; with an empty body and a non-nil error when creating
\* the request, performing it or reading the body failed.
C14_ApiCallContract ==
    \A i \in Inv : \A k \in DOMAIN apiRets[i] :
        LET a == apiRets[i][k]
            r == Outcome(i, k)
        IN  /\ r.kind \in {"norequest", "doerr", "readerr", "http"}
            /\ IsNil(a.err) => (r.kind = "http" /\ r.code = StatusOK /\ a.body = r.body)
            /\ (r.kind = "http" /\ r.code # StatusOK) => (a.body = r.body /\ ~IsNil(a.err))
            /\ r.kind \in {"norequest", "doerr", "readerr"}
               => (a.body = <<>> /\ ~IsNil(a.err))

\* an invocation whose getData call returned a body with a nil error and
\* whose changeRecords call broke while the body was read: apiCall returned
\* an empty body and an error, not what had been read
C14_Witness ==
    \E i \in Inv :
        /\ Len(apiRets[i]) = 2
        /\ IsNil(apiRets[i][1].err)
        /\ apiRets[i][1].body = fetchResp[i].body
        /\ writeResp[i].kind = "readerr"
        /\ writeResp[i].body # <<>>
        /\ apiRets[i][2].body = <<>>
        /\ ~IsNil(apiRets[i][2].err)

(***************************************************************************)
(* C15                                                                     *)
(***************************************************************************)

\* client.Do returned a response, and with it a body to be closed
BodyObtained(r) == r.kind \in {"readerr", "http"}

\* C15: when a call of apiCall has returned, the body of the response it
\* obtained from the HTTP client has been closed exactly once, whichever
\* way the call ended after client.Do succeeded (reading failed, status not
\* 200, success); a call that obtained no response closed nothing.
C15_BodyClosedOnce ==
    \A i \in Inv : \A k \in DOMAIN apiRets[i] :
        apiRets[i][k].closed = IF BodyObtained(Outcome(i, k)) THEN 1 ELSE 0

\* an invocation whose getData call ended on the success path and whose
\* changeRecords call ended on the status path: each body closed once
C15_Witness ==
    \E i \in Inv :
        /\ pc[i] = "done"
        /\ Len(apiRets[i]) = 2
        /\ IsNil(apiRets[i][1].err)
        /\ apiRets[i][1].closed = 1
        /\ writeResp[i].kind = "http"
        /\ writeResp[i].code # StatusOK
        /\ apiRets[i][2].closed = 1

(***************************************************************************)
(* C16                                                                     *)
(***************************************************************************)

\* the instance invocation i was called on, as its caller holds it
Receiver(i) == IF recv[i] = "q" THEN q ELSE p

\* C16: with invocations of Update overlapping in any order, on one
\* instance or on two instances built for different domains: every request
\* of an invocation carries the credentials and the target of the instance
\* it was called on; every changeRecords request carries the records that
\* invocation's own getData response held (as JSON values, see C3), with "A"
\* replaced by the single entry of that invocation's own ip and its own
\* instance's priority; and no step changes a field of an instance once
\* New has built it.
C16_InvocationsIsolated ==
    /\ [](\A i \in Inv :
            LET inst == Receiver(i) IN
            /\ \A k \in DOMAIN reqs[i] :
                  /\ reqs[i][k].login = inst.login
                  /\ reqs[i][k].passwd = inst.password
                  /\ PayloadOf(reqs[i][k].input_data).fqdn = inst.target
            /\ \A k \in WriteRequests(i) :
                  LET own == FetchDecoded(i).Records
                      sent == RecordsSent(i, k)
                  IN  /\ ~own.nil
                      /\ DOMAIN sent = (DOMAIN own.m) \cup {"A"}
                      /\ \A key \in (DOMAIN own.m) \ {"A"} :
                            Canon(sent[key]) = Canon(own.m[key])
                      /\ sent["A"] = NewAEntryJSON(inst.priority, ip[i]))
    /\ [][/\ newRet.called => (p' = p /\ config' = config)
          /\ q # ZeroProvider => q' = q]_vars

\* two invocations on two instances are both between their fetch and the
\* return of their write: the instances differ in target, priority and
\* credentials, and each invocation's requests carry its own instance's
\* and its own address
C16_Witness ==
    \E i, j \in Inv :
        /\ recv[i] = "p" /\ recv[j] = "q"
        /\ pc[i] = "writing" /\ pc[j] = "writing"
        /\ p.target # q.target /\ p.priority # q.priority /\ p.login # q.login
        /\ ip[i] # ip[j]
        /\ reqs[i][Len(reqs[i])].login = p.login
        /\ reqs[j][Len(reqs[j])].login = q.login
        /\ PayloadOf(reqs[i][Len(reqs[i])].input_data).fqdn = p.target
        /\ PayloadOf(reqs[j][Len(reqs[j])].input_data).fqdn = q.target
        /\ RecordsSent(i, Len(reqs[i]))["A"] = NewAEntryJSON(p.priority, ip[i])
        /\ RecordsSent(j, Len(reqs[j]))["A"] = NewAEntryJSON(q.priority, ip[j])
        /\ "MX" \in DOMAIN RecordsSent(i, Len(reqs[i]))
        /\ "MX" \notin DOMAIN RecordsSent(j, Len(reqs[j]))

\* two invocations on one instance are both between their fetch and the
\* return of their write, called with different addresses and having
\* fetched different record sets, and each one's request carries its own
\* address and its own fetched MX value
C16_SameInstanceOverlap ==
    \E i, j \in Inv :
        /\ i # j
        /\ recv[i] = recv[j]
        /\ pc[i] = "writing" /\ pc[j] = "writing"
        /\ ip[i] # ip[j]
        /\ "MX" \in DOMAIN fetched[i].m /\ "MX" \in DOMAIN fetched[j].m
        /\ Canon(fetched[i].m["MX"]) # Canon(fetched[j].m["MX"])
        /\ RecordsSent(i, Len(reqs[i]))["A"] = NewAEntryJSON(p.priority, ip[i])
        /\ RecordsSent(j, Len(reqs[j]))["A"] = NewAEntryJSON(p.priority, ip[j])
        /\ Canon(RecordsSent(i, Len(reqs[i]))["MX"]) = Canon(fetched[i].m["MX"])
        /\ Canon(RecordsSent(j, Len(reqs[j]))["MX"]) = Canon(fetched[j].m["MX"])

(***************************************************************************)
(* C17                                                                     *)
(***************************************************************************)

\* C17: the fqdn of every request an invocation has issued, getData and
\* changeRecords alike, is the domain written in the configuration blob New
\* was given, whatever the domain argument of New was.
C17_RequestsNameTarget ==
    LET configured == UnmarshalSettings(config.data).Domain IN
    \A i \in Inv : \A k \in DOMAIN reqs[i] :
        /\ p.target = configured
        /\ PayloadOf(reqs[i][k].input_data).fqdn = configured

\* an instance built with a domain argument that differs from the domain of
\* its configuration has issued both requests, each naming the latter
C17_Witness ==
    \E i \in Inv :
        /\ config.domain = "example.com"
        /\ UnmarshalSettings(config.data).Domain = "home.example.com"
        /\ Len(reqs[i]) = 2
        /\ reqs[i][1].path = GetDataPath
        /\ reqs[i][2].path = ChangeRecordsPath
        /\ PayloadOf(reqs[i][1].input_data).fqdn = "home.example.com"
        /\ PayloadOf(reqs[i][2].input_data).fqdn = "home.example.com"

(***************************************************************************)
(* C18                                                                     *)
(***************************************************************************)

\* C18: whenever Update has returned a non-nil error, the address it
\* returned is the zero address and not the address it was called with; the
\* address it was called with is returned only beside a nil error.
C18_ErrorReturnsZeroAddress ==
    \A i \in Inv :
        pc[i] = "done"
        => /\ ~IsNil(ret[i].err) => (ret[i].ip = ZeroAddr /\ ret[i].ip # ip[i])
           /\ ret[i].ip = ip[i] => IsNil(ret[i].err)

\* Update was called with an address, its changeRecords call got an answer,
\* and it has returned an error and the zero address
C18_Witness ==
    \E i \in Inv :
        /\ pc[i] = "done"
        /\ writeResp[i].kind = "http"
        /\ ~IsNil(ret[i].err)
        /\ ret[i].ip = ZeroAddr
        /\ ip[i] # ZeroAddr

(***************************************************************************)
(* C19                                                                     *)
(***************************************************************************)

\* the step in which the provider applies the write of invocation i and
\* Update returns a nil error, the provider's record set being still the
\* one it answered the invocation's getData request with
AppliesOnFetchedSet(i) ==
    /\ pc[i] = "writing"
    /\ pc'[i] = "done"
    /\ writeResp'[i].applied
    /\ IsNil(ret'[i].err)
    /\ fetchResp[i].body = GetDataBody(p.target, server)

\* C19: with a provider that replaces the whole record set on a write and no
\* writer in between: a successful Update(ip) leaves the provider with the
\* record set it had (as JSON values), "A" being the single new entry; and
\* a second successful Update with the same ip, made on the record set the
\* first one left, sends the same write payload and leaves the record set
\* as it is.
C19_Idempotent ==
    /\ [][\A i \in Inv :
            AppliesOnFetchedSet(i)
            => /\ DOMAIN server' = (DOMAIN server) \cup {"A"}
               /\ \A key \in (DOMAIN server) \ {"A"} : Canon(server'[key]) = Canon(server[key])
               /\ server'["A"] = NewAEntryJSON(p.priority, ip[i])]_vars
    /\ [][\A i, j \in Inv :
            (/\ i # j
             /\ AppliesOnFetchedSet(j)
             /\ pc[i] = "done"
             /\ IsNil(ret[i].err)
             /\ writeResp[i].applied
             /\ ip[i] = ip[j]
             /\ server = RecordsSent(i, Len(reqs[i])))
            => /\ reqs[j][Len(reqs[j])].input_data = reqs[i][Len(reqs[i])].input_data
               /\ server' = server]_vars

\* a first Update changed the A record of a record set written with spaces;
\* a second one with the same address fetched what the first had left, sent
\* the same payload and returned; the provider holds what the first left
C19_Witness ==
    \E i, j \in Inv :
        /\ i # j
        /\ pc[i] = "done" /\ pc[j] = "done"
        /\ IsNil(ret[i].err) /\ IsNil(ret[j].err)
        /\ writeResp[i].applied /\ writeResp[j].applied
        /\ ip[i] = ip[j]
        /\ "A" \in DOMAIN fetched[i].m
        /\ fetched[i].m["A"] # NewAEntryJSON(p.priority, ip[i])
        /\ "MX" \in DOMAIN fetched[i].m
        /\ fetched[i].m["MX"] # Compact(fetched[i].m["MX"])
        /\ fetchResp[j].body = GetDataBody(p.target, RecordsSent(i, Len(reqs[i])))
        /\ reqs[j][Len(reqs[j])].input_data = reqs[i][Len(reqs[i])].input_data
        /\ server = RecordsSent(i, Len(reqs[i]))

====
